---- MODULE Spec2Model ----
(***************************************************************************)
(* Model of the Nested backend: the Netlify functions (like.js,            *)
(* properties.js, register.js, login.js, contact.js, part_000) over the    *)
(* relational store they share, and the file-based server (part_001) over  *)
(* its JSON data files.  Every await of a handler is a point where another *)
(* invocation may run; each SQL statement is executed by the store as one  *)
(* atomic step.                                                            *)
(***************************************************************************)
EXTENDS Integers, FiniteSets, Sequences, TLC

VARIABLES
  db,    \* the relational store: its tables, their rows, their id sequences
  req,   \* the invocations of the like handler
  preq,  \* the invocations of the properties handler
  db0,   \* the store as it was before the first invocation
  solo,  \* for each pair, the store as the toggles of that pair alone make it
  areq,  \* the invocations of the register, login and contact handlers
  srv,   \* the file-based server: its data files and its requests
  browser  \* auth-utils in the browser: localStorage and its calls

vars == <<db, req, preq, db0, solo, areq, srv, browser>>

(* ------------------------------ bounds -------------------------------- *)

\* number of like-handler invocations that may overlap in one behaviour
MaxReq == 2

\* number of like-handler invocations issued one after another
MaxSeqReq == 3

\* number of properties-handler invocations of one behaviour
MaxPropReq == 1

\* number of like-handler invocations that run beside the properties handler
MaxMixedLikes == 1

\* number of invocations of each handler in a behaviour where statements of
\* the store may fail
MaxFaultReq == 1

\* number of invocations of the register, login and contact handlers
MaxAuthReq == 2

\* number of requests to the file-based server
MaxSrvReq == 2

\* requests to the file-based server whose file reads and writes may fail
MaxSrvFaultReq == 2

\* calls of register() and login() in the browser
MaxClientCalls == 2

\* like-handler invocations whose write and response are separate steps
MaxReplyReq == 2

Max(a, b) == IF a >= b THEN a ELSE b

Reqs == 1..Max(Max(Max(MaxReq, MaxReplyReq), MaxFaultReq), Max(MaxSeqReq, MaxMixedLikes))
PReqs == 1..Max(MaxPropReq, MaxFaultReq)
AReqs == 1..Max(MaxAuthReq, MaxClientCalls)
SReqs == 1..Max(MaxSrvReq, MaxSrvFaultReq)

\* identifiers a request body may carry beside 0, which stands for a falsy
\* value (missing, null, empty string or 0)
Ids == {1, 2}
BodyVals == {0} \cup Ids
Methods == {"POST", "GET"}
TableNames == {"users", "properties", "property_likes", "contacts"}

(* ------------------------------ the store ----------------------------- *)

\* the rows of a store on which register and the property creation have
\* run: every user of Ids, and property 1 only
UserRows ==
  { [id |-> i, username |-> i, email |-> i, password |-> i, name |-> i] : i \in Ids }

\* a property row; 0 is NULL
PropertyRow(id, f) ==
  [id |-> id, title |-> f.title, description |-> f.description, price |-> f.price,
   location |-> f.location, image |-> f.image, address |-> f.address]

PropBodies ==
  { [title |-> t, description |-> d, price |-> 0, location |-> 0, image |-> 0,
     address |-> 0] : t \in {0, 1}, d \in {0, 1} }

PropertyRows ==
  { PropertyRow(1, [title |-> 1, description |-> 1, price |-> 0, location |-> 0,
                    image |-> 0, address |-> 0]) }

NoRows == [t \in TableNames |-> {}]

FreshDb == [tables |-> {}, rows |-> NoRows, seq |-> [t \in TableNames |-> 1]]

\* a store on which only register has run
UsersDb ==
  [tables |-> {"users"},
   rows |-> [NoRows EXCEPT !["users"] = UserRows],
   seq |-> [FreshDb.seq EXCEPT !["users"] = Cardinality(UserRows) + 1]]

\* a store on which register and the property creation have run
RegisteredDb ==
  [tables |-> {"users", "properties"},
   rows |-> [UsersDb.rows EXCEPT !["properties"] = PropertyRows],
   seq |-> [UsersDb.seq EXCEPT !["properties"] = Cardinality(PropertyRows) + 1]]

LikeRows ==
  { [id |-> 1, property_id |-> 1, user_id |-> 1, liked |-> TRUE],
    [id |-> 2, property_id |-> 1, user_id |-> 2, liked |-> TRUE] }

\* a store on which users 1 and 2 have liked property 1
LikedDb ==
  [tables |-> {"users", "properties", "property_likes"},
   rows |-> [RegisteredDb.rows EXCEPT !["property_likes"] = LikeRows],
   seq |-> [RegisteredDb.seq EXCEPT !["property_likes"] = Cardinality(LikeRows) + 1]]

\* DROP TABLE IF EXISTS t, then CREATE TABLE t
CreateTableIfNotExists_Replace(d, t) ==
  [db |-> [d EXCEPT !.tables = @ \cup {t}, !.rows[t] = {}, !.seq[t] = 1], err |-> "none"]

\* CREATE TABLE IF NOT EXISTS t (...)
CreateTableIfNotExists(d, t) ==
  IF t \in d.tables
  THEN [db |-> d, err |-> "none"]
  ELSE IF t = "property_likes" /\ ~({"users", "properties"} \subseteq d.tables)
  THEN [db |-> d, err |-> "undefined_table"]
  ELSE [db |-> [d EXCEPT !.tables = @ \cup {t}, !.rows[t] = {}, !.seq[t] = 1],
        err |-> "none"]

\* a SELECT whose WHERE clause leaves the user out
SelectLike_AnyUser(d, pid, uid) ==
  { [id |-> x.id, liked |-> x.liked] :
      x \in { y \in d.rows["property_likes"] : y.property_id = pid } }

\* SELECT id, liked FROM property_likes WHERE property_id = pid AND user_id = uid
SelectLike(d, pid, uid) ==
  { [id |-> x.id, liked |-> x.liked] :
      x \in { y \in d.rows["property_likes"] : y.property_id = pid /\ y.user_id = uid } }

\* an unlike that deletes the row
UpdateLike_DeleteOnUnlike(d, id, v) ==
  [db |-> [d EXCEPT !.rows["property_likes"] =
             IF v THEN { IF x.id = id THEN [x EXCEPT !.liked = v] ELSE x : x \in @ }
             ELSE { x \in @ : x.id # id }],
   err |-> "none"]

\* an UPDATE whose WHERE clause matches no row
UpdateLike_NoRow(d, id, v) == [db |-> d, err |-> "none"]

\* an UPDATE without a WHERE clause
UpdateLike_AllRows(d, id, v) ==
  [db |-> [d EXCEPT !.rows["property_likes"] = { [x EXCEPT !.liked = v] : x \in @ }],
   err |-> "none"]

\* UPDATE property_likes SET liked = v WHERE id = id
UpdateLike(d, id, v) ==
  [db |-> [d EXCEPT !.rows["property_likes"] =
             { IF x.id = id THEN [x EXCEPT !.liked = v] ELSE x : x \in @ }],
   err |-> "none"]

\* REFERENCES properties(id), REFERENCES users(id)
ForeignKeysHold(d, pid, uid) ==
  /\ \E p \in d.rows["properties"] : p.id = pid
  /\ \E u \in d.rows["users"] : u.id = uid

\* a table without the UNIQUE constraint
UniqueHolds_Unchecked(d, pid, uid) == TRUE

\* UNIQUE(property_id, user_id)
UniqueHolds(d, pid, uid) ==
  ~ \E x \in d.rows["property_likes"] : x.property_id = pid /\ x.user_id = uid

\* INSERT INTO property_likes (property_id, user_id, liked) VALUES (pid, uid, v)
\* the serial id is drawn before the constraints are checked
InsertLike(d, pid, uid, v) ==
  LET id == d.seq["property_likes"]
      drawn == [d EXCEPT !.seq["property_likes"] = id + 1]
  IN IF ~UniqueHolds(d, pid, uid) THEN [db |-> drawn, err |-> "unique_violation"]
     ELSE IF ~ForeignKeysHold(d, pid, uid)
     THEN [db |-> drawn, err |-> "foreign_key_violation"]
     ELSE [db |-> [drawn EXCEPT !.rows["property_likes"] =
                     @ \cup { [id |-> id, property_id |-> pid, user_id |-> uid,
                               liked |-> v] }],
           err |-> "none"]

(* ----------------------- the properties store ------------------------- *)

\* SELECT * FROM properties WHERE id = id
SelectProperty(d, id) == { x \in d.rows["properties"] : x.id = id }

\* SELECT * FROM properties
SelectProperties(d) == d.rows["properties"]

\* INSERT INTO properties (...) VALUES (...) RETURNING *
InsertProperty(d, f) ==
  LET id == d.seq["properties"]
      row == PropertyRow(id, f)
  IN [db |-> [d EXCEPT !.seq["properties"] = id + 1,
                       !.rows["properties"] = @ \cup {row}],
      err |-> "none", returning |-> {row}]

(* --------------------------- like handler ----------------------------- *)

NoResp == [status |-> 0, propertyId |-> 0, userId |-> 0, liked |-> FALSE]

Response(status) == [NoResp EXCEPT !.status = status]

NoBody == [kind |-> "none", propertyId |-> 0, userId |-> 0]

\* created, alone and aloneEnd are history fields: the tables this
\* invocation's ensureTables created, what its SELECT finds in the store
\* that the toggles of its pair alone make, and how it ends on that store
IdleReq ==
  [pc |-> "idle", body |-> NoBody, propertyId |-> 0, userId |-> 0, existing |-> {},
   resp |-> NoResp, err |-> "none", created |-> {}, alone |-> {},
   aloneEnd |-> [resp |-> NoResp, err |-> "none"]]

\* existing[0]
First(rows) == CHOOSE x \in rows : \A y \in rows : x.id <= y.id

\* what req.json() may yield: a syntax error, null, or an object
Bodies ==
  { [kind |-> k, propertyId |-> 0, userId |-> 0] : k \in {"invalid", "null"} }
    \cup { [kind |-> "object", propertyId |-> p, userId |-> u] :
             p \in BodyVals, u \in BodyVals }

\* const { propertyId, userId } = body || {}
Destructure(b) ==
  IF b.kind = "object" THEN [propertyId |-> b.propertyId, userId |-> b.userId]
  ELSE [propertyId |-> 0, userId |-> 0]

\* !propertyId && !userId
Invalid_Both(propertyId, userId) == propertyId = 0 /\ userId = 0

\* !propertyId || !userId
Invalid(propertyId, userId) == propertyId = 0 \/ userId = 0

\* a first like stored as false
ToggledValue_FirstFalse(existing) ==
  IF existing # {} THEN ~First(existing).liked ELSE FALSE

\* a toggle that keeps the value
ToggledValue_NoFlip(existing) ==
  IF existing # {} THEN First(existing).liked ELSE TRUE

\* liked = !existing[0].liked when a record exists, liked = true otherwise
ToggledValue(existing) ==
  IF existing # {} THEN ~First(existing).liked ELSE TRUE

\* the UPDATE of the record found, or the INSERT of a new one
WriteResult(d, pid, uid, existing) ==
  IF existing # {}
  THEN UpdateLike(d, First(existing).id, ToggledValue(existing))
  ELSE InsertLike(d, pid, uid, ToggledValue(existing))

\* an invocation ends with a response
Respond(r, resp) ==
  req' = [req EXCEPT ![r].pc = "done", ![r].resp = resp]

\* the positions of the three statements of ensureTables
EnsurePcs == {"ensure_users", "ensure_properties", "ensure_likes"}

\* an invocation that goes on after a failed statement as if it had succeeded
Throw_Swallowed(r, e) ==
  req' = [req EXCEPT ![r].err = e,
                     ![r].pc = IF req[r].pc \in EnsurePcs THEN "body" ELSE "done"]

\* an invocation ends with a rejected promise
Throw(r, e) ==
  req' = [req EXCEPT ![r].pc = "threw", ![r].err = e]

\* the response to a toggle, or the rejection of its write
Outcome(res, pid, uid, existing) ==
  IF res.err # "none"
  THEN [resp |-> NoResp, err |-> res.err]
  ELSE [resp |-> [status |-> 200, propertyId |-> pid, userId |-> uid,
                  liked |-> ToggledValue(existing)],
        err |-> "none"]

\* the method check, up to the first statement of ensureTables
Start(r) ==
  /\ req[r].pc = "idle"
  /\ \A q \in Reqs : q < r => req[q].pc # "idle"
  /\ \E m \in Methods :
       IF m # "POST"
       THEN Respond(r, Response(405))
       ELSE req' = [req EXCEPT ![r].pc = "ensure_users"]
  /\ UNCHANGED <<db, preq, db0, solo, areq, srv, browser>>

\* one CREATE TABLE IF NOT EXISTS of ensureTables
EnsureStep(r, from, t, to) ==
  /\ req[r].pc = from
  /\ LET res == CreateTableIfNotExists(db, t)
     IN /\ db' = res.db
        /\ IF res.err # "none"
           THEN Throw(r, res.err)
           ELSE req' = [req EXCEPT ![r].pc = to,
                                   ![r].created = @ \cup (res.db.tables \ db.tables)]
  /\ UNCHANGED <<preq, db0, solo, areq, srv, browser>>

EnsureUsers(r) == EnsureStep(r, "ensure_users", "users", "ensure_properties")

EnsureProperties(r) == EnsureStep(r, "ensure_properties", "properties", "ensure_likes")

EnsureLikes(r) == EnsureStep(r, "ensure_likes", "property_likes", "body")

\* req.json(), the destructuring and the validation
ParseBody(r) ==
  /\ req[r].pc = "body"
  /\ \E b \in Bodies :
       IF b.kind = "invalid"
       THEN req' = [req EXCEPT ![r].pc = "done", ![r].body = b,
                               ![r].resp = Response(400)]
       ELSE LET f == Destructure(b)
            IN IF Invalid(f.propertyId, f.userId)
               THEN req' = [req EXCEPT ![r].pc = "done", ![r].body = b,
                                       ![r].resp = Response(400)]
               ELSE req' = [req EXCEPT ![r].pc = "select", ![r].body = b,
                                       ![r].propertyId = f.propertyId,
                                       ![r].userId = f.userId]
  /\ UNCHANGED <<db, preq, db0, solo, areq, srv, browser>>

\* the SELECT of the existing like record
Select(r) ==
  /\ req[r].pc = "select"
  /\ req' = [req EXCEPT ![r].pc = "write",
                        ![r].existing = SelectLike(db, req[r].propertyId, req[r].userId),
                        ![r].alone = SelectLike(solo[<<req[r].propertyId, req[r].userId>>],
                                                req[r].propertyId, req[r].userId)]
  /\ UNCHANGED <<db, preq, db0, solo, areq, srv, browser>>

\* the UPDATE or the INSERT, and the response
Write(r) ==
  /\ req[r].pc = "write"
  /\ LET pid == req[r].propertyId
         uid == req[r].userId
         res == WriteResult(db, pid, uid, req[r].existing)
         out == Outcome(res, pid, uid, req[r].existing)
         sres == WriteResult(solo[<<pid, uid>>], pid, uid, req[r].alone)
     IN /\ db' = res.db
        /\ solo' = [solo EXCEPT ![<<pid, uid>>] = sres.db]
        /\ req' = [req EXCEPT ![r].pc = IF out.err # "none" THEN "threw" ELSE "done",
                              ![r].resp = out.resp,
                              ![r].err = out.err,
                              ![r].aloneEnd = Outcome(sres, pid, uid, req[r].alone)]
  /\ UNCHANGED <<preq, db0, areq, srv, browser>>

(* ------------------------- properties handler ------------------------- *)

NoPropBody ==
  [title |-> 0, description |-> 0, price |-> 0, location |-> 0, image |-> 0,
   address |-> 0]

\* a response: its status, the rows of its body, or the error text of its body
NoPropResp == [status |-> 0, rows |-> {}, error |-> "none"]

\* err is the error that the handler's catch clause caught
IdlePReq ==
  [pc |-> "idle", id |-> 0, body |-> NoPropBody, resp |-> NoPropResp, err |-> "none"]

PropMethods == {"GET", "POST", "DELETE"}

PropRespond(q, status, rows) ==
  preq' = [preq EXCEPT ![q].pc = "done",
                       ![q].resp = [status |-> status, rows |-> rows, error |-> "none"]]

\* a response whose body is { error: text }
PropRespondError(q, status, text) ==
  preq' = [preq EXCEPT ![q].pc = "done",
                       ![q].resp = [status |-> status, rows |-> {}, error |-> text]]

\* a catch clause that answers with a fixed text
ErrMessage_Generic(e) == "Server error"

\* err && err.message ? err.message : 'Server error'
ErrMessage(e) == IF e # "" THEN e ELSE "Server error"

\* the catch clause: 500 with the message of the error caught
PropCatch(q, e) ==
  preq' = [preq EXCEPT ![q].pc = "done", ![q].err = e,
                       ![q].resp = [status |-> 500, rows |-> {},
                                    error |-> ErrMessage(e)]]

\* ensurePropertiesTable, then the dispatch on the method up to the next statement
PropEnsure(q) ==
  /\ preq[q].pc = "idle"
  /\ \A p \in PReqs : p < q => preq[p].pc # "idle"
  /\ LET res == CreateTableIfNotExists(db, "properties")
     IN /\ db' = res.db
        /\ IF res.err # "none"
           THEN PropCatch(q, res.err)
           ELSE \E m \in PropMethods :
                  IF m = "GET"
                  THEN \E id \in BodyVals :
                         preq' = [preq EXCEPT ![q].id = id,
                                    ![q].pc = IF id # 0 THEN "get_one" ELSE "get_all"]
                  ELSE IF m = "POST"
                  THEN \E valid \in BOOLEAN :
                         IF ~valid
                         THEN PropRespondError(q, 400, "Invalid JSON body")
                         ELSE \E b \in PropBodies :
                                IF b.title = 0
                                THEN preq' = [preq EXCEPT
                                       ![q].pc = "done", ![q].body = b,
                                       ![q].resp = [status |-> 400, rows |-> {},
                                                    error |-> "Missing title"]]
                                ELSE preq' = [preq EXCEPT ![q].pc = "insert",
                                                          ![q].body = b]
                  ELSE PropRespondError(q, 405, "Method Not Allowed")
  /\ UNCHANGED <<req, db0, solo, areq, srv, browser>>

\* GET with an id
PropGetOne(q) ==
  /\ preq[q].pc = "get_one"
  /\ LET rows == SelectProperty(db, preq[q].id)
     IN IF rows = {} THEN PropRespondError(q, 404, "Property not found")
        ELSE PropRespond(q, 200, rows)
  /\ UNCHANGED <<db, req, db0, solo, areq, srv, browser>>

\* GET without an id
PropGetAll(q) ==
  /\ preq[q].pc = "get_all"
  /\ PropRespond(q, 200, SelectProperties(db))
  /\ UNCHANGED <<db, req, db0, solo, areq, srv, browser>>

\* POST with a title
PropInsert(q) ==
  /\ preq[q].pc = "insert"
  /\ LET res == InsertProperty(db, preq[q].body)
     IN /\ db' = res.db
        /\ IF res.err # "none"
           THEN PropCatch(q, res.err)
           ELSE PropRespond(q, 200, res.returning)
  /\ UNCHANGED <<req, db0, solo, areq, srv, browser>>

(* ------------------------- the users store ---------------------------- *)

\* a WHERE clause that compares the username only
SelectUsers_ByUsername(d, username, email) ==
  { x \in d.rows["users"] : username # 0 /\ x.username = username }

\* SELECT ... FROM users WHERE username = username OR email = email
\* a comparison with NULL (0) selects no row
SelectUsers(d, username, email) ==
  { x \in d.rows["users"] :
      \/ username # 0 /\ x.username = username
      \/ email # 0 /\ x.email = email }

\* a users table without its UNIQUE constraints
UserConstraint_NotNull(d, username, email, password) ==
  IF username = 0 \/ password = 0 THEN "not_null_violation" ELSE "none"

\* username VARCHAR(255) UNIQUE NOT NULL, email VARCHAR(255) UNIQUE,
\* password VARCHAR(255) NOT NULL
UserConstraint(d, username, email, password) ==
  IF username = 0 \/ password = 0 THEN "not_null_violation"
  ELSE IF \E x \in d.rows["users"] :
            x.username = username \/ (email # 0 /\ x.email = email)
  THEN "unique_violation"
  ELSE "none"

\* the columns of a row that a RETURNING clause or a handler hands out
Project(row, columns) == [c \in columns |-> row[c]]

\* INSERT INTO users (username, email, password, name) VALUES (...)
\* RETURNING id, username, email, name
InsertUser(d, username, email, password, name) ==
  LET id == d.seq["users"]
      drawn == [d EXCEPT !.seq["users"] = id + 1]
      row == [id |-> id, username |-> username, email |-> email,
              password |-> password, name |-> name]
      e == UserConstraint(d, username, email, password)
  IN IF e # "none" THEN [db |-> drawn, err |-> e, returning |-> {}]
     ELSE [db |-> [drawn EXCEPT !.rows["users"] = @ \cup {row}], err |-> "none",
           returning |-> { Project(row, {"id", "username", "email", "name"}) }]

\* an INSERT that leaves the new row as the only row of the table
InsertContact_Replace(d, name, email, message) ==
  LET id == d.seq["contacts"]
      row == [id |-> id, name |-> name, email |-> email, message |-> message]
  IN [db |-> [d EXCEPT !.seq["contacts"] = id + 1, !.rows["contacts"] = {row}],
      err |-> "none", returning |-> {row}]

\* INSERT INTO contacts (name, email, message) VALUES (...)
\* RETURNING id, name, email, message, created_at
InsertContact(d, name, email, message) ==
  LET id == d.seq["contacts"]
      row == [id |-> id, name |-> name, email |-> email, message |-> message]
  IN IF message = 0
     THEN [db |-> [d EXCEPT !.seq["contacts"] = id + 1], err |-> "not_null_violation",
           returning |-> {}]
     ELSE [db |-> [d EXCEPT !.seq["contacts"] = id + 1,
                            !.rows["contacts"] = @ \cup {row}],
           err |-> "none", returning |-> {row}]

(* ----------------------- the file-based server ------------------------ *)

\* properties.json as ensureDataFiles seeds it
SeedProperties ==
  << [id |-> 1, title |-> 1, description |-> 1, price |-> 1, address |-> 1,
      imageUrl |-> 1],
     [id |-> 2, title |-> 2, description |-> 2, price |-> 2, address |-> 2,
      imageUrl |-> 2] >>

\* the data files after ensureDataFiles
SeedFiles == [users |-> << >>, properties |-> SeedProperties, contacts |-> << >>]

SrvMethods == {"GET", "POST", "OPTIONS", "DELETE"}

\* the paths of a request; "/api/properties/" is followed by the id segment
SrvPaths ==
  {"/api/register", "/api/login", "/api/properties", "/api/properties/",
   "/api/contact", "/api/likes", "/"}

\* the routes that read a body
SrvPostRoutes == {"/api/register", "/api/login", "/api/properties", "/api/contact"}

\* the last path segment as parseInt reads it; 0 stands for NaN
SrvPathIds == {0, 1, 3}

NoSrvBody ==
  [kind |-> "none", email |-> 0, password |-> 0, name |-> 0, title |-> 0,
   description |-> 0, price |-> 0, address |-> 0, imageUrl |-> 0, message |-> 0]

\* what parseBody resolves with: null for a body that is not JSON, {} for an
\* empty body, or the object; emails 1 and 2 differ in letter case only
SrvBodies(pathname) ==
  { [NoSrvBody EXCEPT !.kind = k] : k \in {"invalid", "object"} } \cup
  IF pathname = "/api/register"
  THEN { [NoSrvBody EXCEPT !.kind = "object", !.email = e, !.password = p, !.name = n] :
           e \in {0, 1, 2}, p \in {0, 1}, n \in {0, 1} }
  ELSE IF pathname = "/api/login"
  THEN { [NoSrvBody EXCEPT !.kind = "object", !.email = e, !.password = p] :
           e \in {0, 1, 2}, p \in {0, 1, 2} }
  ELSE IF pathname = "/api/properties"
  THEN { [NoSrvBody EXCEPT !.kind = "object", !.title = t, !.description = d,
                           !.price = c, !.address = a] :
           t \in {0, 1}, d \in {0, 1}, c \in {0, 1}, a \in {0, 1} }
  ELSE { [NoSrvBody EXCEPT !.kind = "object", !.name = n, !.email = e, !.message = m] :
           n \in {0, 1}, e \in {0, 1}, m \in {0, 1} }

\* a comparison that keeps the letter case
ToLowerCase_Same(email) == email

\* String.prototype.toLowerCase on the emails 1 ('a@x') and 2 ('A@x')
ToLowerCase(email) == IF email = 2 THEN 1 ELSE email

\* hashPassword: the SHA-256 digest of the password
HashPassword(password) == [sha256 |-> password]

\* users.length ? users[users.length - 1].id + 1 : 1
NextId(records) == IF Len(records) > 0 THEN records[Len(records)].id + 1 ELSE 1

\* Array.prototype.find: the first of the records whose index is in hits,
\* the indexes of the records that pass the test
Find(records, hits) ==
  IF hits = {} THEN << >>
  ELSE << records[CHOOSE i \in hits : \A j \in hits : i <= j] >>

\* a response: status, the error text, the records and the id of its body
SrvResp(status, error, records, id) ==
  [status |-> status, error |-> error, records |-> records, id |-> id]

NoSrvResp == SrvResp(0, "none", << >>, 0)

IdleSReq ==
  [pc |-> "idle", method |-> "none", pathname |-> "none", id |-> 0,
   body |-> NoSrvBody, resp |-> NoSrvResp]

InitSrv == [files |-> SeedFiles, reqs |-> [s \in SReqs |-> IdleSReq]]

\* POST /api/register
SrvRegister(files, body) ==
  IF body.kind = "invalid" \/ body.email = 0 \/ body.password = 0 \/ body.name = 0
  THEN [files |-> files, resp |-> SrvResp(400, "Missing required fields", << >>, 0)]
  ELSE LET sameEmail == { i \in 1..Len(files.users) :
                            ToLowerCase(files.users[i].email) = ToLowerCase(body.email) }
           newUser == [id |-> NextId(files.users), name |-> body.name,
                       email |-> ToLowerCase(body.email),
                       passwordHash |-> HashPassword(body.password)]
       IN IF Find(files.users, sameEmail) # << >>
          THEN [files |-> files, resp |-> SrvResp(409, "User already exists", << >>, 0)]
          ELSE [files |-> [files EXCEPT !.users = Append(@, newUser)],
                resp |-> SrvResp(201, "none", << >>, newUser.id)]

\* POST /api/login
SrvLogin(files, body) ==
  IF body.kind = "invalid" \/ body.email = 0 \/ body.password = 0
  THEN [files |-> files, resp |-> SrvResp(400, "Missing email or password", << >>, 0)]
  ELSE LET hasEmail == { i \in 1..Len(files.users) :
                           files.users[i].email = ToLowerCase(body.email) }
           user == Find(files.users, hasEmail)
       IN IF user = << >> \/ user[1].passwordHash # HashPassword(body.password)
          THEN [files |-> files,
                resp |-> SrvResp(401, "Invalid email or password", << >>, 0)]
          ELSE [files |-> files, resp |-> SrvResp(200, "none", << >>, user[1].id)]

\* GET /api/properties
SrvListProperties(files) ==
  [files |-> files, resp |-> SrvResp(200, "none", files.properties, 0)]

\* GET /api/properties/<id>
SrvGetProperty(files, id) ==
  LET hasId == { i \in 1..Len(files.properties) : files.properties[i].id = id }
      property == Find(files.properties, hasId)
  IN IF id = 0
     THEN [files |-> files, resp |-> SrvResp(400, "Invalid property id", << >>, 0)]
     ELSE IF property = << >>
     THEN [files |-> files, resp |-> SrvResp(404, "Property not found", << >>, 0)]
     ELSE [files |-> files, resp |-> SrvResp(200, "none", property, 0)]

\* POST /api/properties
SrvAddProperty(files, body) ==
  IF \/ body.kind = "invalid"
     \/ body.title = 0 \/ body.description = 0 \/ body.price = 0 \/ body.address = 0
  THEN [files |-> files,
        resp |-> SrvResp(400, "Missing required property fields", << >>, 0)]
  ELSE LET newProp == [id |-> NextId(files.properties), title |-> body.title,
                       description |-> body.description, price |-> body.price,
                       address |-> body.address, imageUrl |-> body.imageUrl]
       IN [files |-> [files EXCEPT !.properties = Append(@, newProp)],
           resp |-> SrvResp(201, "none", << newProp >>, 0)]

\* POST /api/contact
SrvContact(files, body) ==
  IF body.kind = "invalid" \/ body.name = 0 \/ body.email = 0 \/ body.message = 0
  THEN [files |-> files, resp |-> SrvResp(400, "Missing contact fields", << >>, 0)]
  ELSE LET newMsg == [id |-> NextId(files.contacts), name |-> body.name,
                      email |-> body.email, message |-> body.message]
       IN [files |-> [files EXCEPT !.contacts = Append(@, newMsg)],
           resp |-> SrvResp(201, "none", << >>, newMsg.id)]

\* the requests that match no route
SrvNoRoute(files, method, pathname) ==
  IF pathname # "/" THEN [files |-> files, resp |-> SrvResp(404, "Endpoint not found", << >>, 0)]
  ELSE IF method = "GET" THEN [files |-> files, resp |-> SrvResp(200, "none", << >>, 0)]
  ELSE [files |-> files, resp |-> SrvResp(404, "Not found", << >>, 0)]

\* a request for which handleRequest awaits parseBody
SrvReadsBody(method, pathname) == method = "POST" /\ pathname \in SrvPostRoutes

\* handleRequest from the dispatch on, which runs without an await
HandleRequest(files, method, pathname, id, body) ==
  IF method = "POST" /\ pathname = "/api/register" THEN SrvRegister(files, body)
  ELSE IF method = "POST" /\ pathname = "/api/login" THEN SrvLogin(files, body)
  ELSE IF method = "GET" /\ pathname = "/api/properties" THEN SrvListProperties(files)
  ELSE IF method = "GET" /\ pathname = "/api/properties/" THEN SrvGetProperty(files, id)
  ELSE IF method = "POST" /\ pathname = "/api/properties" THEN SrvAddProperty(files, body)
  ELSE IF method = "POST" /\ pathname = "/api/contact" THEN SrvContact(files, body)
  ELSE SrvNoRoute(files, method, pathname)

\* the data file a route reads and writes
SrvFileOf(pathname) ==
  IF pathname \in {"/api/register", "/api/login"} THEN "users"
  ELSE IF pathname = "/api/contact" THEN "contacts"
  ELSE "properties"

\* readJson: the parsed file, or [] when the read or the parse throws
ReadJson(files, name, readOk) == IF readOk THEN files[name] ELSE << >>

\* writeJson: the file is replaced, or left as it is when the write throws;
\* no caller looks at the value returned
WriteJson(files, name, data, writeOk) ==
  IF writeOk THEN [files EXCEPT ![name] = data] ELSE files

\* handleRequest on data files whose read succeeds or fails (readOk) and
\* whose write succeeds or fails (writeOk)
HandleRequestIO(files, method, pathname, id, body, readOk, writeOk) ==
  LET name == SrvFileOf(pathname)
      seen == [files EXCEPT ![name] = ReadJson(files, name, readOk)]
      out == HandleRequest(seen, method, pathname, id, body)
  IN [files |-> IF out.files # seen
                THEN WriteJson(files, name, out.files[name], writeOk)
                ELSE files,
      resp |-> out.resp]

\* a request arrives: OPTIONS is answered 204, a request without a body is
\* handled at once, the others wait for their body
SrvAcceptIO(s, readOk, writeOk) ==
  /\ srv.reqs[s].pc = "idle"
  /\ \A t \in SReqs : t < s => srv.reqs[t].pc # "idle"
  /\ \E method \in SrvMethods, pathname \in SrvPaths,
        id \in SrvPathIds :
       /\ (pathname # "/api/properties/" => id = 0)
       /\ LET got == [IdleSReq EXCEPT !.method = method, !.pathname = pathname,
                                      !.id = id]
              out == HandleRequestIO(srv.files, method, pathname, id, NoSrvBody,
                                     readOk, writeOk)
          IN IF method = "OPTIONS"
             THEN srv' = [srv EXCEPT !.reqs[s] =
                            [got EXCEPT !.pc = "done",
                                        !.resp = SrvResp(204, "none", << >>, 0)]]
             ELSE IF SrvReadsBody(method, pathname)
             THEN srv' = [srv EXCEPT !.reqs[s] = [got EXCEPT !.pc = "body"]]
             ELSE srv' = [files |-> out.files,
                          reqs |-> [srv.reqs EXCEPT ![s] =
                                      [got EXCEPT !.pc = "done", !.resp = out.resp]]]
  /\ UNCHANGED <<db, req, preq, db0, solo, areq, browser>>

\* parseBody has resolved: the rest of handleRequest
SrvHandleIO(s, readOk, writeOk) ==
  /\ srv.reqs[s].pc = "body"
  /\ \E body \in SrvBodies(srv.reqs[s].pathname) :
       LET r == srv.reqs[s]
           out == HandleRequestIO(srv.files, r.method, r.pathname, r.id, body,
                                  readOk, writeOk)
       IN srv' = [files |-> out.files,
                  reqs |-> [srv.reqs EXCEPT ![s] =
                              [r EXCEPT !.pc = "done", !.body = body,
                                        !.resp = out.resp]]]
  /\ UNCHANGED <<db, req, preq, db0, solo, areq, browser>>

\* the server on data files that are read and written without failure
SrvAccept(s) == SrvAcceptIO(s, TRUE, TRUE)

SrvHandle(s) == SrvHandleIO(s, TRUE, TRUE)

\* the server on data files whose reads and writes may fail
SrvAcceptFaulty(s) ==
  s <= MaxSrvFaultReq /\ \E readOk \in BOOLEAN, writeOk \in BOOLEAN :
                          SrvAcceptIO(s, readOk, writeOk)

SrvHandleFaulty(s) ==
  \E readOk \in BOOLEAN, writeOk \in BOOLEAN : SrvHandleIO(s, readOk, writeOk)

(* ---------------- register, login and contact handlers ---------------- *)

\* the two sets of handlers of the repository: the ES modules (part_000,
\* login.js, contact.js) and the CommonJS handlers of register.js
Variants == {"esm", "cjs"}

Handlers(v) ==
  IF v = "esm" THEN {"register", "login", "contact"} ELSE {"register_cjs", "login_cjs"}

\* an object without properties
NoRow == [c \in {} |-> 0]

NoAuthBody ==
  [kind |-> "none", username |-> 0, email |-> 0, password |-> 0, name |-> 0,
   message |-> 0]

\* a response: its status, the error text of its body, the row of its body
NoAuthResp == [status |-> 0, error |-> "none", row |-> NoRow]

IdleAReq(v) ==
  [variant |-> v, fn |-> "none", pc |-> "idle", body |-> NoAuthBody,
   resp |-> NoAuthResp, err |-> "none"]

\* the bodies a request to handler fn may carry: a syntax error, null, or
\* an object; a field that is 0 is missing or falsy
AuthBodies(fn) ==
  { [NoAuthBody EXCEPT !.kind = k] : k \in {"invalid", "null"} } \cup
  IF fn = "contact"
  THEN { [NoAuthBody EXCEPT !.kind = "object", !.email = e, !.message = m] :
           e \in {0, 1}, m \in {0, 1} }
  ELSE IF fn \in {"login", "login_cjs"}
  THEN { [NoAuthBody EXCEPT !.kind = "object", !.username = u, !.email = e,
                            !.password = p] :
           u \in BodyVals, e \in BodyVals, p \in BodyVals }
  ELSE { [NoAuthBody EXCEPT !.kind = "object", !.username = u, !.email = e,
                            !.password = p] :
           u \in BodyVals, e \in BodyVals, p \in {0, 1} } \cup
       \* { name, email, password }, the body auth-utils posts
       { [NoAuthBody EXCEPT !.kind = "object", !.email = e, !.password = p,
                            !.name = 1] : e \in BodyVals, p \in {0, 1} }

\* a || b
Or(a, b) == IF a # 0 THEN a ELSE b

\* register.js: username = body.username || body.name || email;
\* login of register.js: usernameOrEmail = body.username || body.email
UsernameOf(fn, b) ==
  IF fn = "register_cjs" THEN Or(b.username, Or(b.name, b.email))
  ELSE IF fn = "login_cjs" THEN Or(b.username, b.email)
  ELSE b.username

\* the value compared with the email column
EmailOf(fn, b) == IF fn = "login_cjs" THEN Or(b.username, b.email) ELSE b.email

\* register.js: name = body.name || body.username
NameOf(fn, b) == IF fn = "register_cjs" THEN Or(b.name, b.username) ELSE b.name

\* the validation of a parsed body: the text of its 400 response, or "none"
Validate(fn, b) ==
  IF fn \in {"register", "register_cjs"}
  THEN IF UsernameOf(fn, b) = 0 \/ b.password = 0
       THEN "Username and password are required" ELSE "none"
  ELSE IF fn = "login"
  THEN IF b.password = 0 \/ (b.username = 0 /\ b.email = 0)
       THEN "Email or username and password are required" ELSE "none"
  ELSE IF fn = "login_cjs"
  THEN IF UsernameOf(fn, b) = 0 THEN "Missing username or email"
       ELSE IF b.password = 0 THEN "Missing password" ELSE "none"
  ELSE IF b.message = 0 THEN "Message is required" ELSE "none"

AuthRespond(a, status, text, row) ==
  areq' = [areq EXCEPT ![a].pc = "done",
                       ![a].resp = [status |-> status, error |-> text, row |-> row]]

\* an error thrown in the handler: caught by the login handler of
\* register.js, which answers 500 with its message; a rejected promise in
\* the handlers that have no catch clause
AuthFail(a, e) ==
  IF areq[a].fn = "login_cjs"
  THEN areq' = [areq EXCEPT ![a].pc = "done", ![a].err = e,
                            ![a].resp = [status |-> 500, error |-> ErrMessage(e),
                                         row |-> NoRow]]
  ELSE areq' = [areq EXCEPT ![a].pc = "threw", ![a].err = e]

\* the user object of a login response that keeps every column
LoginUser_WithPassword(fn, user) == user

\* login.js: delete user.password; login of register.js: { username, email }
LoginUser(fn, user) ==
  IF fn = "login_cjs" THEN Project(user, {"username", "email"})
  ELSE Project(user, DOMAIN user \ {"password"})

\* the method check
AuthStart(a) ==
  /\ areq[a].pc = "idle"
  /\ \A b \in AReqs : b < a => areq[b].pc # "idle"
  /\ \E fn \in Handlers(areq[a].variant), m \in Methods :
       IF m # "POST"
       THEN areq' = [areq EXCEPT ![a].fn = fn, ![a].pc = "done",
                                 ![a].resp = [status |-> 405,
                                              error |-> "Method Not Allowed",
                                              row |-> NoRow]]
       ELSE areq' = [areq EXCEPT ![a].fn = fn, ![a].pc = "ensure"]
  /\ UNCHANGED <<db, req, preq, db0, solo, srv, browser>>

\* ensureUsersTable, ensureContactsTable
AuthEnsure(a) ==
  /\ areq[a].pc = "ensure"
  /\ LET res == CreateTableIfNotExists(db, IF areq[a].fn = "contact" THEN "contacts"
                                           ELSE "users")
     IN /\ db' = res.db
        /\ IF res.err # "none" THEN AuthFail(a, res.err)
           ELSE areq' = [areq EXCEPT ![a].pc = "body"]
  /\ UNCHANGED <<req, preq, db0, solo, srv, browser>>

\* the parse of the body and the validation
AuthParse(a) ==
  /\ areq[a].pc = "body"
  /\ LET fn == areq[a].fn
     IN \E b \in AuthBodies(fn) :
          LET seen == [areq EXCEPT ![a].body = b]
          IN IF b.kind = "invalid"
             THEN areq' = [seen EXCEPT ![a].pc = "done",
                                       ![a].resp = [status |-> 400,
                                                    error |-> "Invalid JSON body",
                                                    row |-> NoRow]]
             ELSE IF b.kind = "null" /\ areq[a].variant = "cjs"
             THEN \* body.email of null
                  IF fn = "login_cjs"
                  THEN areq' = [seen EXCEPT ![a].pc = "done", ![a].err = "TypeError",
                                            ![a].resp = [status |-> 500,
                                                         error |-> ErrMessage("TypeError"),
                                                         row |-> NoRow]]
                  ELSE areq' = [seen EXCEPT ![a].pc = "threw", ![a].err = "TypeError"]
             ELSE IF Validate(fn, b) # "none"
             THEN areq' = [seen EXCEPT ![a].pc = "done",
                                       ![a].resp = [status |-> 400,
                                                    error |-> Validate(fn, b),
                                                    row |-> NoRow]]
             ELSE areq' = [seen EXCEPT ![a].pc = IF fn = "contact" THEN "insert"
                                                 ELSE "select"]
  /\ UNCHANGED <<db, req, preq, db0, solo, srv, browser>>

\* the SELECT of the users that have the username or the email, and what
\* the handler does with its result; result[0] is any of the rows selected,
\* the statement has no ORDER BY
AuthSelect(a) ==
  /\ areq[a].pc = "select"
  /\ LET fn == areq[a].fn
         b == areq[a].body
         rows == SelectUsers(db, UsernameOf(fn, b), EmailOf(fn, b))
     IN IF fn \in {"register", "register_cjs"}
        THEN IF rows # {} THEN AuthRespond(a, 400, "User already exists", NoRow)
             ELSE areq' = [areq EXCEPT ![a].pc = "insert"]
        ELSE IF rows = {}
        THEN IF fn = "login" THEN AuthRespond(a, 401, "Invalid credentials", NoRow)
             ELSE AuthRespond(a, 404, "User not found", NoRow)
        ELSE \E user \in rows :
               IF user.password # b.password
               THEN IF fn = "login"
                    THEN AuthRespond(a, 401, "Invalid credentials", NoRow)
                    ELSE AuthRespond(a, 401, "Invalid password", NoRow)
               ELSE AuthRespond(a, 200, "none", LoginUser(fn, user))
  /\ UNCHANGED <<db, req, preq, db0, solo, srv, browser>>

\* the INSERT of the user or of the contact, and the 201 response
AuthInsert(a) ==
  /\ areq[a].pc = "insert"
  /\ LET fn == areq[a].fn
         b == areq[a].body
         res == IF fn = "contact" THEN InsertContact(db, b.name, b.email, b.message)
                ELSE InsertUser(db, UsernameOf(fn, b), b.email, b.password,
                                NameOf(fn, b))
     IN /\ db' = res.db
        /\ IF res.err # "none" THEN AuthFail(a, res.err)
           ELSE \E row \in res.returning : AuthRespond(a, 201, "none", row)
  /\ UNCHANGED <<req, preq, db0, solo, srv, browser>>

(* ----------------- auth-utils: register() and login() ----------------- *)

\* normalizeEmail: trimmed and lower-cased; the emails 1 ('a@x') and
\* 2 ('A@x') differ in letter case only
NormalizeEmail(email) == ToLowerCase(email)

\* the emails that key localStorage
UserKeys == { NormalizeEmail(e) : e \in Ids }

\* no item under a key of localStorage
NoUser == [email |-> 0, password |-> 0]

\* what the forms hand to register() and login(); the register form has a
\* name, the password of the login form may be the wrong one
Forms(fn) ==
  IF fn = "register"
  THEN { [email |-> e, password |-> p, name |-> 1] : e \in BodyVals, p \in {0, 1} }
  ELSE { [email |-> e, password |-> p, name |-> 0] : e \in BodyVals, p \in Ids }

NoForm == [email |-> 0, password |-> 0, name |-> 0]

\* what a call returns: { ok, reason, user }; fallback tells that the
\* localStorage branch produced it
NoResult == [ok |-> FALSE, reason |-> "none", user |-> NoUser, fallback |-> FALSE]

\* a call of register() or login(): its form, the response its fetch
\* received, and what it returned
IdleCall ==
  [fn |-> "none", pc |-> "idle", form |-> NoForm, resp |-> NoAuthResp,
   result |-> NoResult]

InitBrowser ==
  [storage |-> [users |-> [k \in UserKeys |-> NoUser], loggedInUser |-> 0],
   calls |-> [a \in AReqs |-> IdleCall]]

\* the handler that serves the fetch of a call, in either set of handlers
ServerFn(variant, fn) ==
  IF variant = "cjs" THEN (IF fn = "register" THEN "register_cjs" ELSE "login_cjs")
  ELSE fn

\* the body of the fetch: { name, email, password, address } for register,
\* { username: emailRaw, password } for login
ClientBody(fn, form) ==
  IF fn = "register"
  THEN [NoAuthBody EXCEPT !.kind = "object", !.name = Or(form.name, NormalizeEmail(form.email)),
                          !.email = form.email, !.password = form.password]
  ELSE [NoAuthBody EXCEPT !.kind = "object", !.username = form.email,
                          !.password = form.password]

\* resp.ok
RespOk(resp) == resp.status \in 200..299

\* data.email: the login of register.js answers { username, email }, the
\* other handlers answer { message, user }, which has no email of its own
DataEmail(fn, resp) == IF fn = "login_cjs" THEN resp.row.email ELSE 0

\* the error text register() maps to 'exists'
ExistsText == "User with that username or email already exists"

\* saveUser and localStorage.setItem('loggedInUser', email)
SaveUser(storage, email, user) ==
  [users |-> [storage.users EXCEPT ![email] = user], loggedInUser |-> email]

\* register() after its fetch has resolved
RegisterResult(resp, form, storage) ==
  LET email == NormalizeEmail(form.email)
  IN IF ~RespOk(resp) \/ resp.error # "none"
     THEN [storage |-> storage,
           result |-> [NoResult EXCEPT
                         !.reason = IF resp.error = ExistsText THEN "exists"
                                    ELSE resp.error]]
     ELSE \* email: data.email || email, and neither register handler
          \* answers an email at the top of its body
          LET user == [email |-> email, password |-> form.password]
          IN [storage |-> SaveUser(storage, email, user),
              result |-> [NoResult EXCEPT !.ok = TRUE, !.user = user]]

\* register() after its fetch has failed: the registration in localStorage
RegisterLocal(form, storage) ==
  LET email == NormalizeEmail(form.email)
  IN IF storage.users[email] # NoUser
     THEN [storage |-> storage,
           result |-> [NoResult EXCEPT !.reason = "exists", !.fallback = TRUE]]
     ELSE LET user == [email |-> email, password |-> form.password]
          IN [storage |-> SaveUser(storage, email, user),
              result |-> [NoResult EXCEPT !.ok = TRUE, !.fallback = TRUE,
                                          !.user = user]]

\* the fallback of login(): the credentials are checked against localStorage
LoginLocal(form, storage) ==
  LET email == NormalizeEmail(form.email)
      stored == storage.users[email]
  IN IF stored = NoUser
     THEN [storage |-> storage,
           result |-> [NoResult EXCEPT !.reason = "not_found", !.fallback = TRUE]]
     ELSE IF stored.password # form.password
     THEN [storage |-> storage,
           result |-> [NoResult EXCEPT !.reason = "invalid_password",
                                       !.fallback = TRUE]]
     ELSE [storage |-> [storage EXCEPT !.loggedInUser = email],
           result |-> [NoResult EXCEPT !.ok = TRUE, !.fallback = TRUE,
                                       !.user = stored]]

\* else if (data && data.email)
LoginSucceeds(fn, resp) == DataEmail(fn, resp) # 0

\* login() after its fetch has resolved
LoginResult(fn, resp, form, storage) ==
  LET email == NormalizeEmail(form.email)
  IN IF ~RespOk(resp) \/ resp.error # "none"
     THEN IF resp.error \in {"Invalid password", "User not found"}
          THEN LoginLocal(form, storage)
          ELSE [storage |-> storage,
                result |-> [NoResult EXCEPT !.reason = "login_failed"]]
     ELSE IF LoginSucceeds(fn, resp)
     THEN LET user == [email |-> DataEmail(fn, resp), password |-> form.password]
          IN [storage |-> SaveUser(storage, email, user),
              result |-> [NoResult EXCEPT !.ok = TRUE, !.user = user]]
     ELSE LoginLocal(form, storage)

\* a call ends
Return(a, out, resp) ==
  browser' = [storage |-> out.storage,
              calls |-> [browser.calls EXCEPT ![a].pc = "done", ![a].resp = resp,
                                              ![a].result = out.result]]

\* register(formData) or login(emailRaw, password) is called: the checks of
\* the form, then the fetch, which starts an invocation of the handler
ClientCall(a) ==
  /\ a <= MaxClientCalls
  /\ browser.calls[a].pc = "idle"
  /\ \A b \in AReqs : b < a => browser.calls[b].pc = "done"
  /\ \E fn \in {"register", "login"} : \E form \in Forms(fn) :
       LET call == [IdleCall EXCEPT !.fn = fn, !.form = form]
           refused == [browser EXCEPT !.calls[a] = [call EXCEPT !.pc = "done"]]
       IN IF NormalizeEmail(form.email) = 0
          THEN /\ browser' = [refused EXCEPT !.calls[a].result.reason = "missing_email"]
               /\ UNCHANGED areq
          ELSE IF fn = "register" /\ form.password = 0
          THEN /\ browser' = [refused EXCEPT
                                !.calls[a].result.reason = "missing_password"]
               /\ UNCHANGED areq
          ELSE /\ browser' = [browser EXCEPT !.calls[a] = [call EXCEPT !.pc = "fetch"]]
               /\ areq' = [areq EXCEPT ![a].fn = ServerFn(areq[a].variant, fn),
                                       ![a].pc = "ensure"]
  /\ UNCHANGED <<db, req, preq, db0, solo, srv>>

\* the handler parses the body the browser has sent
ClientParse(a) ==
  /\ browser.calls[a].pc = "fetch"
  /\ AuthParse(a)
  /\ areq'[a].body = ClientBody(browser.calls[a].fn, browser.calls[a].form)

\* the fetch resolves with the handler's response, and the call returns
ClientReceive(a) ==
  /\ browser.calls[a].pc = "fetch"
  /\ areq[a].pc = "done"
  /\ LET call == browser.calls[a]
     IN Return(a, IF call.fn = "register"
                  THEN RegisterResult(areq[a].resp, call.form, browser.storage)
                  ELSE LoginResult(areq[a].fn, areq[a].resp, call.form,
                                   browser.storage),
               areq[a].resp)
  /\ UNCHANGED <<db, req, preq, db0, solo, areq, srv>>

\* the fetch rejects (the server is not reached, or its response is lost):
\* the catch clause, and the localStorage branch
ClientNetworkError(a) ==
  /\ browser.calls[a].pc = "fetch"
  /\ areq[a].pc \in {"ensure", "done"}
  /\ LET call == browser.calls[a]
     IN Return(a, IF call.fn = "register"
                  THEN RegisterLocal(call.form, browser.storage)
                  ELSE LoginLocal(call.form, browser.storage),
               NoAuthResp)
  /\ UNCHANGED <<db, req, preq, db0, solo, areq, srv>>

\* a store on which one user has registered, with an email that is the
\* string another user may choose as username
SoleUserDb ==
  [tables |-> {"users"},
   rows |-> [NoRows EXCEPT !["users"] =
               { [id |-> 1, username |-> 1, email |-> 2, password |-> 2, name |-> 0] }],
   seq |-> [FreshDb.seq EXCEPT !["users"] = 2]]

\* a store on which one user has registered with a username and a password
FirstUserDb ==
  [tables |-> {"users"},
   rows |-> [NoRows EXCEPT !["users"] =
               { [id |-> 1, username |-> 1, email |-> 0, password |-> 1, name |-> 0] }],
   seq |-> [FreshDb.seq EXCEPT !["users"] = 2]]

InitAuth ==
  /\ db \in {FreshDb, UsersDb, SoleUserDb, FirstUserDb}
  /\ db0 = db
  /\ solo = [pair \in Ids \X Ids |-> db]
  /\ req = [r \in Reqs |-> IdleReq]
  /\ preq = [q \in PReqs |-> IdlePReq]
  /\ \E v \in Variants : areq = [a \in AReqs |-> IdleAReq(v)]
  /\ srv = InitSrv
  /\ browser = InitBrowser

AuthSettled(a) == areq[a].pc \in {"done", "threw"}

\* invocations of the register, login and contact handlers, one after another
AuthStartSeq(a) ==
  AuthStart(a) /\ \A b \in AReqs : areq[b].pc = "idle" \/ AuthSettled(b)

NextAuth ==
  \E a \in AReqs :
    \/ AuthStartSeq(a)
    \/ AuthEnsure(a)
    \/ AuthParse(a)
    \/ AuthSelect(a)
    \/ AuthInsert(a)

SpecAuth == InitAuth /\ [][NextAuth]_vars

\* invocations of the register handlers, interleaved at every await
AuthStartRegister(a) == AuthStart(a) /\ areq'[a].fn \in {"register", "register_cjs"}

NextRegister ==
  \E a \in AReqs :
    \/ AuthStartRegister(a)
    \/ AuthEnsure(a)
    \/ AuthParse(a)
    \/ AuthSelect(a)
    \/ AuthInsert(a)

SpecRegister == InitAuth /\ [][NextRegister]_vars

\* the browser's calls, one after another, served by the handlers
NextClient ==
  \E a \in AReqs :
    \/ ClientCall(a)
    \/ AuthEnsure(a)
    \/ ClientParse(a)
    \/ AuthSelect(a)
    \/ AuthInsert(a)
    \/ ClientReceive(a)
    \/ ClientNetworkError(a)

SpecClient == InitAuth /\ [][NextClient]_vars

\* the file-based server on its seeded data files
InitServer ==
  /\ db = FreshDb
  /\ db0 = db
  /\ solo = [pair \in Ids \X Ids |-> db]
  /\ req = [r \in Reqs |-> IdleReq]
  /\ preq = [q \in PReqs |-> IdlePReq]
  /\ areq = [a \in AReqs |-> IdleAReq("esm")]
  /\ srv = InitSrv
  /\ browser = InitBrowser

NextSrv == \E s \in SReqs : SrvAccept(s) \/ SrvHandle(s)

SpecSrv == InitServer /\ [][NextSrv]_vars

NextSrvFault == \E s \in SReqs : SrvAcceptFaulty(s) \/ SrvHandleFaulty(s)

SpecSrvFault == InitServer /\ [][NextSrvFault]_vars

(* --------------------------- specifications --------------------------- *)

Init ==
  /\ db \in {FreshDb, UsersDb, RegisteredDb, LikedDb}
  /\ db0 = db
  /\ solo = [pair \in Ids \X Ids |-> db]
  /\ req = [r \in Reqs |-> IdleReq]
  /\ preq = [q \in PReqs |-> IdlePReq]
  /\ areq = [a \in AReqs |-> IdleAReq("esm")]
  /\ srv = InitSrv
  /\ browser = InitBrowser

\* like-handler invocations, interleaved at every await
StartAny(r) == Start(r) /\ r <= MaxReq

Next ==
  \E r \in Reqs :
    \/ StartAny(r)
    \/ EnsureUsers(r)
    \/ EnsureProperties(r)
    \/ EnsureLikes(r)
    \/ ParseBody(r)
    \/ Select(r)
    \/ Write(r)

Spec == Init /\ [][Next]_vars

InFlight(r) == req[r].pc \notin {"idle", "done", "threw"}

\* like-handler invocations issued one after another
StartSeq(r) == Start(r) /\ r <= MaxSeqReq /\ \A q \in Reqs : ~InFlight(q)

NextSeq ==
  \E r \in Reqs :
    \/ StartSeq(r)
    \/ EnsureUsers(r)
    \/ EnsureProperties(r)
    \/ EnsureLikes(r)
    \/ ParseBody(r)
    \/ Select(r)
    \/ Write(r)

SpecSeq == Init /\ [][NextSeq]_vars

\* like-handler invocations beside invocations of the properties handler
StartMixed(r) == Start(r) /\ r <= MaxMixedLikes

StartProp(q) == PropEnsure(q) /\ q <= MaxPropReq

NextMixed ==
  \/ \E r \in Reqs :
       \/ StartMixed(r)
       \/ EnsureUsers(r)
       \/ EnsureProperties(r)
       \/ EnsureLikes(r)
       \/ ParseBody(r)
       \/ Select(r)
       \/ Write(r)
  \/ \E q \in PReqs :
       \/ StartProp(q)
       \/ PropGetOne(q)
       \/ PropGetAll(q)
       \/ PropInsert(q)

SpecMixed == Init /\ [][NextMixed]_vars

(* --------------------- statements that fail --------------------------- *)

\* the error text of a statement that the store could not execute
\* (connectivity loss, permission error)
StoreErrors == {"connection terminated unexpectedly", "permission denied for schema public"}

\* a statement awaited by the like handler fails: the handler has no catch
\* clause, its promise is rejected
LikeFault(r) ==
  /\ req[r].pc \in EnsurePcs \cup {"select", "write"}
  /\ \E e \in StoreErrors : Throw(r, e)
  /\ UNCHANGED <<db, preq, db0, solo, areq, srv, browser>>

\* a statement awaited by the properties handler fails and is caught
PropFault(q) ==
  /\ preq[q].pc \in {"idle", "get_one", "get_all", "insert"}
  /\ \A p \in PReqs : p < q => preq[p].pc # "idle"
  /\ q <= MaxFaultReq
  /\ \E e \in StoreErrors : PropCatch(q, e)
  /\ UNCHANGED <<db, req, db0, solo, areq, srv, browser>>

\* no invocation of either handler is running
Quiet ==
  /\ \A r \in Reqs : ~InFlight(r)
  /\ \A q \in PReqs : preq[q].pc \in {"idle", "done"}

StartFaulty(r) == Start(r) /\ r <= MaxFaultReq /\ Quiet

StartPropFaulty(q) == PropEnsure(q) /\ q <= MaxFaultReq /\ Quiet

\* invocations of the two handlers, one after another, on a store whose
\* statements may fail
NextFault ==
  \/ \E r \in Reqs :
       \/ StartFaulty(r)
       \/ EnsureUsers(r)
       \/ EnsureProperties(r)
       \/ EnsureLikes(r)
       \/ ParseBody(r)
       \/ Select(r)
       \/ Write(r)
       \/ LikeFault(r)
  \/ \E q \in PReqs :
       \/ StartPropFaulty(q)
       \/ PropGetOne(q)
       \/ PropGetAll(q)
       \/ PropInsert(q)
       \/ PropFault(q)

SpecFault == Init /\ [][NextFault]_vars

(* ------------------------------- claims ------------------------------- *)

Settled(r) == req[r].pc \in {"done", "threw"}

Answered(r) == req[r].pc = "done" /\ req[r].resp.status = 200

\* the invocations that have toggled, or tried to toggle, the pair (p, u)
Toggles(p, u) ==
  { r \in Reqs : Settled(r) /\ req[r].propertyId = p /\ req[r].userId = u }

\* the liked values stored for a pair: {} when the pair has no record
LikedOf(d, p, u) == { x.liked : x \in SelectLike(d, p, u) }

\* ensureTables: the three statements in their order
EnsureTables(d) ==
  LET a == CreateTableIfNotExists(d, "users").db
      b == CreateTableIfNotExists(a, "properties").db
  IN CreateTableIfNotExists(b, "property_likes").db

\* one toggle run from its SELECT to its write with nothing in between
ToggleLike(d, p, u) == WriteResult(d, p, u, SelectLike(d, p, u)).db

RECURSIVE ToggleN(_, _, _, _)
ToggleN(d, p, u, n) == IF n = 0 THEN d ELSE ToggleN(ToggleLike(d, p, u), p, u, n - 1)

\* the step of invocation r that executes its UPDATE or INSERT
LikeWrites(r) == req[r].pc = "write" /\ req'[r].pc # "write"

\* the invocations that have toggled the pair (p, u) and were answered 200
AnsweredToggles(p, u) ==
  { r \in Reqs : Answered(r) /\ req[r].propertyId = p /\ req[r].userId = u }

\* C1: once every invocation has ended, the liked value stored for a pair is
\* the one that applying the toggles of the pair one after another to the
\* initial store yields (no lost update); only the toggles that were
\* answered 200 are counted.
C1_Linearized ==
  (\A r \in Reqs : ~InFlight(r)) =>
    \A p \in Ids, u \in Ids :
      LikedOf(db, p, u) =
        LikedOf(ToggleN(EnsureTables(db0), p, u,
                        Cardinality(AnsweredToggles(p, u))), p, u)

\* C2: property_likes holds at most one row for each (property_id, user_id).
C2_AtMostOneRow ==
  \A x \in db.rows["property_likes"], y \in db.rows["property_likes"] :
    (x.property_id = y.property_id /\ x.user_id = y.user_id) => x = y

\* two invocations raced to insert the same pair and the second was refused
C2_Witness ==
  \E r \in Reqs : req[r].pc = "threw" /\ req[r].err = "unique_violation"

\* C3 (as stated): the write of a toggle on a pair that has no record yet
\* answers liked = true and leaves exactly one record, liked = true.
C3_Original ==
  [][\A r \in Reqs :
       (LikeWrites(r) /\ SelectLike(db, req[r].propertyId, req[r].userId) = {}) =>
         /\ req'[r].pc = "done"
         /\ req'[r].resp.status = 200
         /\ req'[r].resp.liked
         /\ Cardinality(SelectLike(db', req[r].propertyId, req[r].userId)) = 1
         /\ LikedOf(db', req[r].propertyId, req[r].userId) = {TRUE}]_vars

\* C3 (amended): the write of a toggle on a pair that has no record yet, and
\* whose property and user exist, answers liked = true and leaves exactly one
\* record, liked = true.
C3_FirstToggle ==
  [][\A r \in Reqs :
       (/\ LikeWrites(r)
        /\ SelectLike(db, req[r].propertyId, req[r].userId) = {}
        /\ ForeignKeysHold(db, req[r].propertyId, req[r].userId)) =>
         /\ req'[r].pc = "done"
         /\ req'[r].resp.status = 200
         /\ req'[r].resp.liked
         /\ req'[r].resp.propertyId = req[r].propertyId
         /\ req'[r].resp.userId = req[r].userId
         /\ Cardinality(SelectLike(db', req[r].propertyId, req[r].userId)) = 1
         /\ LikedOf(db', req[r].propertyId, req[r].userId) = {TRUE}]_vars

\* a first toggle has been answered and its record is stored
C3_Witness ==
  \E r \in Reqs :
    /\ Answered(r)
    /\ req[r].existing = {}
    /\ LikedOf(db0, req[r].propertyId, req[r].userId) = {}
    /\ LikedOf(db, req[r].propertyId, req[r].userId) # {}

\* C4: a toggle on a pair that has a record answers and stores the negation
\* of the liked value of the record it found (which is the value stored right
\* before its write unless another toggle of the pair wrote in between), in
\* the same row: the pair has one row before and one row after.
C4_UpdateInPlace ==
  [][\A r \in Reqs :
       (LikeWrites(r) /\ req[r].existing # {}) =>
         LET e == First(req[r].existing)
             before == SelectLike(db, req[r].propertyId, req[r].userId)
             after == SelectLike(db', req[r].propertyId, req[r].userId)
         IN /\ req'[r].pc = "done"
            /\ req'[r].resp = [status |-> 200, propertyId |-> req[r].propertyId,
                               userId |-> req[r].userId, liked |-> ~e.liked]
            /\ Cardinality(before) = 1
            /\ after = { [id |-> e.id, liked |-> ~e.liked] }
            /\ { x.id : x \in before } = { x.id : x \in after }
            /\ (before = req[r].existing => LikedOf(db', req[r].propertyId,
                  req[r].userId) = { ~v : v \in LikedOf(db, req[r].propertyId,
                                                         req[r].userId) })]_vars

\* a toggle of an existing record has been answered
C4_Witness ==
  \E r \in Reqs : Answered(r) /\ req[r].existing # {}

\* the rank of invocation r among the toggles of its pair
Nth(r) ==
  Cardinality({ q \in Toggles(req[r].propertyId, req[r].userId) : q <= r })

\* C5 (as stated): the N-th of the toggles issued one after another on a
\* fresh pair is answered with liked = true when N is odd and liked = false
\* when N is even.
C5_Original ==
  \A r \in Reqs :
    (/\ Settled(r)
     /\ req[r].propertyId # 0
     /\ LikedOf(db0, req[r].propertyId, req[r].userId) = {}) =>
       /\ Answered(r)
       /\ req[r].resp.liked = (Nth(r) % 2 = 1)

\* C5 (amended): the same for a fresh pair whose property and user exist;
\* and of two consecutive toggles of a pair the second answers the negation
\* of the first, so that two more toggles restore the value.
C5_Parity ==
  \A r \in Reqs :
    (/\ Settled(r)
     /\ req[r].propertyId # 0
     /\ ForeignKeysHold(db0, req[r].propertyId, req[r].userId)) =>
       /\ Answered(r)
       /\ LikedOf(db0, req[r].propertyId, req[r].userId) = {} =>
            req[r].resp.liked = (Nth(r) % 2 = 1)
       /\ \A q \in Toggles(req[r].propertyId, req[r].userId) :
            Nth(q) + 1 = Nth(r) => req[r].resp.liked = ~req[q].resp.liked
       /\ Nth(r) = Cardinality(Toggles(req[r].propertyId, req[r].userId)) =>
            LikedOf(db, req[r].propertyId, req[r].userId) = {req[r].resp.liked}

\* three toggles have been issued one after another on a fresh pair
C5_Witness ==
  \E r \in Reqs :
    /\ Answered(r)
    /\ LikedOf(db0, req[r].propertyId, req[r].userId) = {}
    /\ Nth(r) = 3
    /\ req[r].resp.liked

\* C6: a like record that exists exists in every later state, for the same
\* pair and under the same id.
C6_NeverDeleted ==
  [][\A x \in db.rows["property_likes"] :
       \E y \in db'.rows["property_likes"] :
         y.id = x.id /\ y.property_id = x.property_id /\ y.user_id = x.user_id]_vars

\* an unlike has been stored as liked = false by a toggle
C6_Witness ==
  \E r \in Reqs :
    /\ Answered(r)
    /\ ~req[r].resp.liked
    /\ LikedOf(db, req[r].propertyId, req[r].userId) = {FALSE}

\* a body without a propertyId or without a userId
Lacks(b) ==
  \/ b.kind = "null"
  \/ b.kind = "object" /\ (b.propertyId = 0 \/ b.userId = 0)

\* C7: a like request whose body lacks propertyId or userId is answered 400
\* and takes no further step, and no step of an invocation before its write
\* changes a row.
C7_Validation ==
  [][\A r \in Reqs :
       /\ (req[r].pc = "body" /\ req'[r].pc # "body" /\ Lacks(req'[r].body)) =>
            /\ req'[r].pc = "done"
            /\ req'[r].resp.status = 400
            /\ db' = db
       /\ (req'[r] # req[r] /\ req[r].pc # "write") => db'.rows = db.rows
       /\ req[r].pc = "done" => req'[r] = req[r]]_vars

\* a request without a userId has been refused while like records exist
C7_Witness ==
  \E r \in Reqs :
    /\ req[r].pc = "done"
    /\ req[r].resp.status = 400
    /\ req[r].body.kind = "object"
    /\ req[r].body.propertyId # 0
    /\ req[r].body.userId = 0
    /\ db.rows["property_likes"] # {}

\* the rows of table t that a step adds or changes, and those it removes or
\* changes
NewRows(t) == db'.rows[t] \ db.rows[t]

OldRows(t) == db.rows[t] \ db'.rows[t]

\* the write step of invocation r inserts one row of property_likes, or
\* rewrites the liked value of the one row its SELECT found (the rewritten
\* value may equal the stored one), and changes no row of another table
OneLikeWrite(r) ==
  /\ IF req[r].existing = {}
     THEN /\ Cardinality(NewRows("property_likes")) = 1
          /\ OldRows("property_likes") = {}
     ELSE LET id == First(req[r].existing).id
              Others(d) == { x \in d.rows["property_likes"] : x.id # id }
              Row(d) == { x \in d.rows["property_likes"] : x.id = id }
          IN /\ Others(db') = Others(db)
             /\ Cardinality(Row(db)) = 1
             /\ Row(db') = { [x EXCEPT !.liked = req'[r].resp.liked] : x \in Row(db) }
  /\ \A t \in TableNames \ {"property_likes"} : db'.rows[t] = db.rows[t]

\* the steps of a like invocation other than its write change no row, and
\* its answer is its last step
LikeFrame(r) ==
  /\ (req'[r] # req[r] /\ req[r].pc # "write") => db'.rows = db.rows
  /\ req[r].pc = "done" => req'[r] = req[r]

\* C8 (as stated): a successful toggle writes exactly one row, of
\* property_likes, and leaves the rows and the existence of users and
\* properties as they were.
C8_Original ==
  [][\A r \in Reqs :
       /\ LikeFrame(r)
       /\ (LikeWrites(r) /\ req'[r].pc = "done") =>
            /\ req'[r].resp.status = 200
            /\ OneLikeWrite(r)
            /\ db'.tables = db.tables
            /\ req[r].created \cap {"users", "properties"} = {}]_vars

\* C8 (amended): a successful toggle writes exactly one row, of
\* property_likes, and changes no row of users or properties; its
\* ensureTables creates, empty, the tables that do not exist yet.
C8_OneWrite ==
  [][\A r \in Reqs :
       /\ LikeFrame(r)
       /\ (LikeWrites(r) /\ req'[r].pc = "done") =>
            /\ req'[r].resp.status = 200
            /\ OneLikeWrite(r)
            /\ db'.tables = db.tables
       /\ req'[r].created # req[r].created =>
            /\ req[r].pc \in {"ensure_users", "ensure_properties", "ensure_likes"}
            /\ \A t \in req'[r].created \ req[r].created :
                 t \notin db.tables /\ t \in db'.tables /\ db'.rows[t] = {}]_vars

\* a toggle has succeeded whose ensureTables had created the properties table
C8_Witness ==
  \E r \in Reqs : Answered(r) /\ "properties" \in req[r].created

\* the likes rows of the pair (p, u)
PairRows(d, p, u) ==
  { x \in d.rows["property_likes"] : x.property_id = p /\ x.user_id = u }

\* C9: the record of a pair, what a toggle reads and how a toggle ends are
\* what they are in the store that the toggles of that pair alone make; a
\* toggle reads no row of another pair.
C9_Independent ==
  /\ \A p \in Ids, u \in Ids : LikedOf(db, p, u) = LikedOf(solo[<<p, u>>], p, u)
  /\ \A r \in Reqs :
       /\ { x.liked : x \in req[r].existing } = { x.liked : x \in req[r].alone }
       /\ \A e \in req[r].existing :
            \E x \in PairRows(db, req[r].propertyId, req[r].userId) : x.id = e.id
       /\ (Settled(r) /\ req[r].propertyId # 0) =>
            [resp |-> req[r].resp, err |-> req[r].err] = req[r].aloneEnd

\* a toggle of one pair has been answered while a toggle of another pair,
\* begun before it, has read and not yet written
C9_Witness ==
  \E r \in Reqs, q \in Reqs :
    /\ r < q
    /\ req[r].pc = "write"
    /\ Answered(q)
    /\ req[q].userId # req[r].userId
    /\ req[q].propertyId = req[r].propertyId
    /\ req[q].existing # {}

\* the table that the statement of ensureTables at pc creates
TableOf(pc) ==
  IF pc = "ensure_users" THEN "users"
  ELSE IF pc = "ensure_properties" THEN "properties" ELSE "property_likes"

\* the step of like invocation r that runs one statement of ensureTables
LikeEnsures(r) ==
  req[r].pc \in {"ensure_users", "ensure_properties", "ensure_likes"} /\ req'[r] # req[r]

\* the step of properties invocation q that runs ensurePropertiesTable
PropEnsures(q) == preq[q].pc = "idle" /\ preq'[q] # preq[q]

\* C10: an ensure-table step never fails, never removes a table, changes no
\* row, and changes nothing at all when its table exists.
C10_Provisioning ==
  [][/\ \A r \in Reqs :
          LikeEnsures(r) =>
            /\ req'[r].pc # "threw"
            /\ db.tables \subseteq db'.tables
            /\ db'.rows = db.rows
            /\ (TableOf(req[r].pc) \in db.tables => db' = db)
     /\ \A q \in PReqs :
          PropEnsures(q) =>
            /\ preq'[q].resp.status # 500
            /\ db.tables \subseteq db'.tables
            /\ db'.rows = db.rows
            /\ ("properties" \in db.tables => db' = db)]_vars

\* both handlers have run their ensure step on tables that hold rows
C10_Witness ==
  /\ \E r \in Reqs : req[r].pc = "body" /\ req[r].created = {}
  /\ \E q \in PReqs : preq[q].pc # "idle"
  /\ db.rows["property_likes"] # {}
  /\ db.rows["properties"] # {}

C12_GenericMessage ==
  /\ \A q \in PReqs :
       preq[q].err # "none" =>
         (preq[q].resp.status = 500 /\ preq[q].resp.error \notin StoreErrors)
  /\ \A r \in Reqs :
       req[r].err # "none" => (req[r].pc = "threw" /\ req[r].resp = NoResp)

\* the register handlers
Registers == {"register", "register_cjs"}

\* a user row has the username or the email of the body b
Collides(d, b) ==
  \E x \in d.rows["users"] :
    \/ b.username # 0 /\ x.username = b.username
    \/ b.email # 0 /\ x.email = b.email

\* C13: a registration that has passed the validation and whose username or
\* email is the one of an existing user row is answered 400 'User already
\* exists' at its duplicate check and inserts no row; a request answered at
\* the validation inserts none either, and a request that has ended takes
\* no further step.
C13_DuplicateRejected ==
  [][\A a \in AReqs :
       /\ (/\ areq[a].fn \in Registers
           /\ areq[a].pc = "select"
           /\ areq'[a] # areq[a]
           /\ Collides(db, areq[a].body)) =>
            /\ areq'[a].pc = "done"
            /\ areq'[a].resp = [status |-> 400, error |-> "User already exists",
                                row |-> NoRow]
            /\ db' = db
       /\ (areq[a].fn \in Registers /\ areq[a].pc = "body" /\ areq'[a] # areq[a]) =>
            db' = db
       /\ AuthSettled(a) => areq'[a] = areq[a]]_vars

\* a registration was refused whose email is the one of a user row that has
\* another username
C13_Witness ==
  \E a \in AReqs :
    /\ areq[a].fn \in Registers
    /\ areq[a].resp.error = "User already exists"
    /\ \E x \in db.rows["users"] :
         /\ x.email = areq[a].body.email
         /\ areq[a].body.username # 0
         /\ x.username # areq[a].body.username
    /\ ~ \E x \in db.rows["users"] : x.username = areq[a].body.username

\* a registration body that names the user by an email only, with a password
EmailOnly(b) ==
  b.kind = "object" /\ b.username = 0 /\ b.name = 0 /\ b.email # 0 /\ b.password # 0

\* no user row has the value v as username or as email
Unused(d, v) == ~ \E x \in d.rows["users"] : x.username = v \/ x.email = v

\* C14: a registration whose body has an unused email and a password but no
\* username passes the validation and the duplicate check, is answered 201
\* and creates the user.
C14_EmailOrUsername ==
  [][\A a \in AReqs :
       (/\ areq[a].fn \in Registers
        /\ areq'[a] # areq[a]
        /\ EmailOnly(areq'[a].body)
        /\ Unused(db, areq'[a].body.email)) =>
         /\ areq[a].pc = "body" => areq'[a].pc = "select"
         /\ areq[a].pc = "select" => areq'[a].pc = "insert"
         /\ areq[a].pc = "insert" =>
              /\ areq'[a].resp.status = 201
              /\ \E x \in db'.rows["users"] : x.email = areq[a].body.email]_vars

\* C15: no response of a register or login invocation holds the password
\* column of a user row.
C15_NoPassword ==
  \A a \in AReqs : "password" \notin DOMAIN areq[a].resp.row

\* a login and a registration were answered with the user object
C15_Witness ==
  /\ \E a \in AReqs :
       /\ areq[a].fn \in {"login", "login_cjs"}
       /\ areq[a].resp.status = 200
       /\ "username" \in DOMAIN areq[a].resp.row
  /\ \E a \in AReqs :
       /\ areq[a].fn \in Registers
       /\ areq[a].resp.status = 201
       /\ "username" \in DOMAIN areq[a].resp.row

\* the login handlers
Logins == {"login", "login_cjs"}

\* a login that passed the validation and was refused at the credential check
LoginRefused(a) ==
  /\ areq[a].fn \in Logins
  /\ areq[a].pc = "done"
  /\ areq[a].body.kind = "object"
  /\ Validate(areq[a].fn, areq[a].body) = "none"
  /\ areq[a].err = "none"
  /\ areq[a].resp.status # 200

\* C16: two logins refused at the credential check, one for a wrong password
\* and one for a user that does not exist, get the same status and body.
C16_NoLeak ==
  \A a \in AReqs, b \in AReqs :
    (LoginRefused(a) /\ LoginRefused(b)) => areq[a].resp = areq[b].resp

\* C19: a login with the username and the password of a registration that
\* was answered 201 before is answered 200.
C19_RoundTrip ==
  \A a \in AReqs, b \in AReqs :
    (/\ a < b
     /\ areq[a].fn \in Registers
     /\ areq[a].resp.status = 201
     /\ areq[a].body.username # 0
     /\ areq[b].fn \in Logins
     /\ AuthSettled(b)
     /\ areq[b].body.kind = "object"
     /\ areq[b].body.username = areq[a].body.username
     /\ areq[b].body.password = areq[a].body.password
     /\ areq[b].body.email = 0) =>
      areq[b].resp.status = 200

\* a request to the file-based server that has been answered
SrvDone(s) == srv.reqs[s].pc = "done"

\* a POST /api/properties of the file-based server whose body was an object
SrvPosted(s) ==
  /\ SrvDone(s)
  /\ srv.reqs[s].method = "POST"
  /\ srv.reqs[s].pathname = "/api/properties"
  /\ srv.reqs[s].body.kind = "object"

\* C17: a property creation without a title is answered 400; one with a
\* title is answered with a success status and with the stored row, whose
\* optional fields are the values given, empty (0) where they were omitted.
C17_CreateProperty ==
  /\ \A q \in PReqs :
       /\ preq[q].resp.error = "Missing title" =>
            (preq[q].body.title = 0 /\ preq[q].resp.status = 400)
       /\ (preq[q].pc = "done" /\ preq[q].body.title # 0 /\ preq[q].err = "none") =>
            /\ preq[q].resp.status = 200
            /\ \E row \in preq[q].resp.rows :
                 /\ row \in db.rows["properties"]
                 /\ [row EXCEPT !.id = 0] = PropertyRow(0, preq[q].body)
  /\ \A s \in SReqs :
       SrvPosted(s) =>
         IF srv.reqs[s].body.title = 0 THEN srv.reqs[s].resp.status = 400
         ELSE /\ srv.reqs[s].resp.status \in {200, 201}
              /\ Len(srv.reqs[s].resp.records) = 1
              /\ \A f \in {"title", "description", "price", "address"} :
                   srv.reqs[s].resp.records[1][f] = srv.reqs[s].body[f]

\* the methods an endpoint of the file-based server does not support
\* (OPTIONS is the preflight request, answered 204)
SrvUnsupported(s) ==
  /\ SrvDone(s)
  /\ srv.reqs[s].pathname \in SrvPostRoutes
  /\ srv.reqs[s].method \notin
       (IF srv.reqs[s].pathname = "/api/properties" THEN {"GET", "POST", "OPTIONS"}
        ELSE {"POST", "OPTIONS"})

\* C18: a request with an unsupported method to the register, login,
\* contact or property-creation endpoint is answered 405; a request answered
\* 405 has read no body and stored nothing.
C18_MethodNotAllowed ==
  /\ \A s \in SReqs : SrvUnsupported(s) => srv.reqs[s].resp.status = 405
  /\ \A a \in AReqs : areq[a].resp.status = 405 => areq[a].body = NoAuthBody
  /\ \A r \in Reqs : req[r].resp.status = 405 => req[r].body = NoBody
  /\ \A q \in PReqs : preq[q].resp.status = 405 => preq[q].body = NoPropBody

\* C20: a property creation with title, description and price (no address)
\* is answered with a success status, and every property created is in the
\* collection that GET /api/properties returns and is what a get-by-id for
\* its id returns.
C20_CreatedIsListed ==
  \A s \in SReqs :
    /\ (/\ SrvPosted(s)
        /\ srv.reqs[s].body.title # 0
        /\ srv.reqs[s].body.description # 0
        /\ srv.reqs[s].body.price # 0) =>
         srv.reqs[s].resp.status \in {200, 201}
    /\ (SrvPosted(s) /\ srv.reqs[s].resp.status \in {200, 201}) =>
         LET created == srv.reqs[s].resp.records[1]
             listed == SrvListProperties(srv.files).resp.records
         IN /\ \E i \in 1..Len(listed) : listed[i] = created
            /\ SrvGetProperty(srv.files, created.id).resp.records = << created >>

\* invocation a of the contact handler takes a step
ContactStep(a) == areq[a].fn = "contact" /\ areq'[a] # areq[a]

SecondInsert(r) ==
  /\ LikeWrites(r)
  /\ req[r].existing = {}
  /\ SelectLike(db, req[r].propertyId, req[r].userId) # {}

\* C23: the INSERT of an invocation that read 'no record' of a pair which
\* has a record by now fails on the UNIQUE constraint, and the invocation
\* ends with a server-error (500) response: it is not answered 200 and it
\* does not end without a response.
C23_Reported ==
  [][\A r \in Reqs :
       SecondInsert(r) =>
         /\ req'[r].pc = "done"
         /\ req'[r].resp.status = 500]_vars

\* what the handler does instead: the refused INSERT rejects the handler,
\* which returns no response; the store keeps the one record
C23_Rejected ==
  [][\A r \in Reqs :
       /\ SecondInsert(r) =>
            /\ req'[r].pc = "threw"
            /\ req'[r].err = "unique_violation"
            /\ req'[r].resp = NoResp
            /\ db'.rows = db.rows
       /\ (req[r].pc = "threw") => req'[r] = req[r]]_vars

\* both invocations read 'no record' of one pair; the first INSERT was
\* answered 200 with liked = true and the second one was refused
C23_Witness ==
  \E r \in Reqs, q \in Reqs :
    /\ r # q
    /\ req[r].propertyId = req[q].propertyId /\ req[r].userId = req[q].userId
    /\ req[r].existing = {} /\ req[q].existing = {}
    /\ Answered(r) /\ req[r].resp.liked
    /\ req[q].pc = "threw" /\ req[q].err = "unique_violation"

(* ------------- the toggle's write and its response, apart ------------- *)

\* await sql`UPDATE ...` or await sql`INSERT ...`: the statement runs in
\* the store; the handler goes on when the store's answer has arrived
WriteStmt(r) ==
  /\ req[r].pc = "write"
  /\ LET pid == req[r].propertyId
         uid == req[r].userId
         res == WriteResult(db, pid, uid, req[r].existing)
         sres == WriteResult(solo[<<pid, uid>>], pid, uid, req[r].alone)
     IN /\ db' = res.db
        /\ solo' = [solo EXCEPT ![<<pid, uid>>] = sres.db]
        /\ req' = [req EXCEPT ![r].pc = IF res.err # "none" THEN "threw" ELSE "reply",
                              ![r].err = res.err,
                              ![r].aloneEnd = Outcome(sres, pid, uid, req[r].alone)]
  /\ UNCHANGED <<preq, db0, areq, srv, browser>>

\* return new Response(JSON.stringify({ propertyId, userId, liked }), 200)
Reply(r) ==
  /\ req[r].pc = "reply"
  /\ Respond(r, [status |-> 200, propertyId |-> req[r].propertyId,
                 userId |-> req[r].userId, liked |-> ToggledValue(req[r].existing)])
  /\ UNCHANGED <<db, preq, db0, solo, areq, srv, browser>>

StartReply(r) == Start(r) /\ r <= MaxReplyReq

NextReply ==
  \E r \in Reqs :
    \/ StartReply(r)
    \/ EnsureUsers(r)
    \/ EnsureProperties(r)
    \/ EnsureLikes(r)
    \/ ParseBody(r)
    \/ Select(r)
    \/ WriteStmt(r)
    \/ Reply(r)

SpecReply == Init /\ [][NextReply]_vars

\* invocation q is in flight for the pair of invocation r
InFlightFor(q, r) ==
  /\ InFlight(q)
  /\ req[q].propertyId = req[r].propertyId
  /\ req[q].userId = req[r].userId

\* the step in which invocation r returns its response
Replies(r) == req[r].pc = "reply" /\ req'[r].pc = "done"

\* the step in which the store executes the write of invocation r
Writes(r) == req[r].pc = "write" /\ req'[r].pc = "reply"

\* C22 (as stated): when a toggle returns its response and no other toggle
\* of its pair is in flight, the liked value stored for the pair is the
\* liked value of that response, the response completed last.
C22_Original ==
  [][\A r \in Reqs :
       (Replies(r) /\ \A q \in Reqs \ {r} : ~InFlightFor(q, r)) =>
         LikedOf(db', req[r].propertyId, req[r].userId) = {req'[r].resp.liked}]_vars

\* C22 (amended): the liked value stored for a pair is the one written by
\* the toggle whose UPDATE or INSERT the store executed last, which is the
\* liked value that toggle answers; nothing but the write of a toggle of
\* the pair changes it. Responses may return in another order than the
\* writes were executed in.
C22_LastWrite ==
  [][/\ \A r \in Reqs :
          /\ Writes(r) =>
               LikedOf(db', req[r].propertyId, req[r].userId) =
                 {ToggledValue(req[r].existing)}
          /\ Replies(r) =>
               /\ req'[r].resp.status = 200
               /\ req'[r].resp.liked = ToggledValue(req[r].existing)
               /\ db' = db
     /\ \A p \in Ids, u \in Ids :
          LikedOf(db', p, u) # LikedOf(db, p, u) =>
            \E r \in Reqs : Writes(r) /\ req[r].propertyId = p /\ req[r].userId = u]_vars

\* two toggles of one pair were both answered, the later one read what the
\* earlier one had written, and the store holds the later one's value
C22_Witness ==
  \E r \in Reqs, q \in Reqs :
    /\ r < q
    /\ req[r].propertyId = req[q].propertyId /\ req[r].userId = req[q].userId
    /\ Answered(r) /\ Answered(q)
    /\ req[q].existing # {} /\ First(req[q].existing).liked = req[r].resp.liked
    /\ LikedOf(db, req[q].propertyId, req[q].userId) = {req[q].resp.liked}

\* registrations a and b use one username
RacingRegistrations(a, b) ==
  /\ a # b
  /\ areq[a].fn \in Registers /\ areq[b].fn \in Registers
  /\ areq[a].body.kind = "object" /\ areq[b].body.kind = "object"
  /\ UsernameOf(areq[a].fn, areq[a].body) = UsernameOf(areq[b].fn, areq[b].body)
  /\ UsernameOf(areq[a].fn, areq[a].body) # 0

\* C24: in every interleaving of registrations, no two user rows have the
\* same username, no two user rows have the same non-null email, and of
\* the registrations that use one username at most one is answered 201.
C24_UniqueUsers ==
  /\ \A x \in db.rows["users"], y \in db.rows["users"] :
       /\ x.username = y.username => x = y
       /\ (x.email # 0 /\ x.email = y.email) => x = y
  /\ \A a \in AReqs, b \in AReqs :
       RacingRegistrations(a, b) =>
         ~(areq[a].resp.status = 201 /\ areq[b].resp.status = 201)

\* two registrations of one username both passed the duplicate check; the
\* INSERT of one was answered 201 and the INSERT of the other was refused
\* by the UNIQUE constraint
C24_Witness ==
  \E a \in AReqs, b \in AReqs :
    /\ RacingRegistrations(a, b)
    /\ areq[a].resp.status = 201
    /\ areq[b].pc = "threw" /\ areq[b].err = "unique_violation"
    /\ \E x \in db.rows["users"] : x.username = UsernameOf(areq[a].fn, areq[a].body)

\* a registration body with a password and with a username or an email
WellFormed(b) ==
  b.kind = "object" /\ b.password # 0 /\ (b.username # 0 \/ b.email # 0)

\* C25: a well-formed registration whose username and email belong to no
\* user row (the { name, email, password } body of the browser client
\* included) passes the validation and the duplicate check, is answered
\* 201 and creates the user.
C25_UnusedIsCreated ==
  [][\A a \in AReqs :
       (/\ areq[a].fn \in Registers
        /\ areq'[a] # areq[a]
        /\ WellFormed(areq'[a].body)
        /\ ~Collides(db, areq'[a].body)) =>
         /\ areq[a].pc = "body" => areq'[a].pc = "select"
         /\ areq[a].pc = "select" => areq'[a].pc = "insert"
         /\ areq[a].pc = "insert" =>
              /\ areq'[a].resp.status = 201
              /\ \E x \in db'.rows["users"] :
                   x.username = UsernameOf(areq[a].fn, areq[a].body)]_vars

\* the same for the bodies that carry a username: those are created
C25_WithUsername ==
  [][\A a \in AReqs :
       (/\ areq[a].fn \in Registers
        /\ areq'[a] # areq[a]
        /\ WellFormed(areq'[a].body) /\ areq'[a].body.username # 0
        /\ ~Collides(db, areq'[a].body)) =>
         /\ areq[a].pc = "body" => areq'[a].pc = "select"
         /\ areq[a].pc = "select" => areq'[a].pc = "insert"
         /\ areq[a].pc = "insert" => areq'[a].resp.status = 201]_vars

\* the browser's body was refused by a register handler although no user
\* row has its email
C25_Witness ==
  \E a \in AReqs :
    /\ areq[a].fn \in Registers
    /\ areq[a].body.kind = "object" /\ areq[a].body.username = 0
    /\ areq[a].body.name # 0 /\ areq[a].body.email # 0 /\ areq[a].body.password # 0
    /\ areq[a].resp.status = 400
    /\ Unused(db, areq[a].body.email)

\* the emails e and f are equal up to letter case
SameLetters(e, f) == e = f \/ {e, f} = {1, 2}

\* request s is a registration that the file server has answered or is
\* about to answer
SrvRegisters(s) ==
  srv.reqs[s].method = "POST" /\ srv.reqs[s].pathname = "/api/register"

\* no two records of users.json have the same email up to letter case
SrvEmailsUnique ==
  \A i \in 1..Len(srv.files.users), j \in 1..Len(srv.files.users) :
    SameLetters(srv.files.users[i].email, srv.files.users[j].email) => i = j

\* C28: in the file server the emails of users.json stay unique up to
\* letter case in every interleaving; a registration whose email equals a
\* stored one up to letter case is answered 409 and leaves users.json as
\* it is; of the registrations of one email at most one is answered 201.
C28_EmailsUnique ==
  [][/\ SrvEmailsUnique'
     /\ \A s \in SReqs :
          (/\ SrvRegisters(s)
           /\ srv.reqs[s].pc = "body" /\ srv'.reqs[s].pc = "done"
           /\ srv'.reqs[s].body.email # 0 /\ srv'.reqs[s].body.password # 0
           /\ srv'.reqs[s].body.name # 0
           /\ \E i \in 1..Len(srv.files.users) :
                SameLetters(srv.files.users[i].email, srv'.reqs[s].body.email)) =>
            /\ srv'.reqs[s].resp.status = 409
            /\ srv'.files = srv.files
     /\ \A s \in SReqs, t \in SReqs :
          (/\ SrvRegisters(s) /\ SrvRegisters(t)
           /\ srv'.reqs[s].resp.status = 201 /\ srv'.reqs[t].resp.status = 201
           /\ SameLetters(srv'.reqs[s].body.email, srv'.reqs[t].body.email)) =>
            s = t]_vars

\* two registrations of one email in different letter case were received at
\* the same time: the one that arrived second was handled first and
\* answered 201, the other was answered 409, and users.json has one user
C28_Witness ==
  \E s \in SReqs, t \in SReqs :
    /\ s < t
    /\ SrvRegisters(s) /\ SrvRegisters(t)
    /\ srv.reqs[s].resp.status = 409 /\ srv.reqs[t].resp.status = 201
    /\ srv.reqs[s].body.email # srv.reqs[t].body.email
    /\ Len(srv.files.users) = 1

\* the step in which the file server answers 201 to request s
SrvCreates(s) ==
  /\ srv.reqs[s].pc = "body" /\ srv'.reqs[s].pc = "done"
  /\ srv'.reqs[s].resp.status = 201

\* C29: when the file server answers 201 to a register, add-property or
\* contact request, the data file of the collection holds, after the step,
\* every record it held before and the new record after them, also when a
\* file read or a file write fails.
C29_Durable ==
  [][\A s \in SReqs :
       SrvCreates(s) =>
         LET name == SrvFileOf(srv.reqs[s].pathname)
             old == srv.files[name]
             new == srv'.files[name]
         IN /\ Len(new) = Len(old) + 1
            /\ \A i \in 1..Len(old) : new[i] = old[i]
            /\ srv.reqs[s].pathname = "/api/properties" =>
                 new[Len(new)] = srv'.reqs[s].resp.records[1]]_vars

\* an add-property request was answered 201 and properties.json has lost
\* the records it held
C29_Witness ==
  \E s \in SReqs :
    /\ SrvPosted(s) /\ srv.reqs[s].resp.status = 201
    /\ \E i \in 1..Len(SeedProperties) :
         \A j \in 1..Len(srv.files.properties) :
           srv.files.properties[j] # SeedProperties[i]

\* the step in which call a returns
Returns(a) == browser.calls[a].pc = "fetch" /\ browser'.calls[a].pc = "done"

\* C26: when a register handler refuses a registration because the user
\* exists already, register() returns { ok: false, reason: 'exists' }.
C26_Exists ==
  \A a \in AReqs :
    (/\ browser.calls[a].fn = "register"
     /\ browser.calls[a].pc = "done"
     /\ browser.calls[a].resp.error = "User already exists") =>
      /\ ~browser.calls[a].result.ok
      /\ browser.calls[a].result.reason = "exists"

\* register() has returned the server's text as the reason
C26_Witness ==
  \E a \in AReqs :
    /\ browser.calls[a].fn = "register"
    /\ areq[a].fn \in {"register", "register_cjs"}
    /\ areq[a].resp = [status |-> 400, error |-> "User already exists", row |-> NoRow]
    /\ browser.calls[a].resp = areq[a].resp
    /\ browser.calls[a].result =
         [NoResult EXCEPT !.reason = "User already exists"]

\* C27: a login() whose fetch is answered 200 returns { ok: true } with
\* the user of the response and records the user as logged in, without the
\* localStorage check; the localStorage check runs only after a network
\* failure or after a 'User not found' or 'Invalid password' error.
C27_ServerLogin ==
  [][\A a \in AReqs :
       (Returns(a) /\ browser.calls[a].fn = "login") =>
         LET call == browser'.calls[a]
         IN /\ call.resp.status = 200 =>
                 /\ call.result.ok
                 /\ ~call.result.fallback
                 /\ call.result.user.email = call.resp.row.email
                 /\ browser'.storage.loggedInUser = NormalizeEmail(call.form.email)
            /\ call.result.fallback =>
                 \/ call.resp = NoAuthResp
                 \/ call.resp.error \in {"User not found", "Invalid password"}]_vars

\* the login handler of login.js answered 200 and login() returned what the
\* localStorage check gave: 'not_found'
C27_Witness ==
  \E a \in AReqs :
    /\ browser.calls[a].fn = "login"
    /\ areq[a].fn = "login"
    /\ browser.calls[a].resp.status = 200
    /\ browser.calls[a].result.fallback
    /\ ~browser.calls[a].result.ok
    /\ browser.calls[a].result.reason = "not_found"

\* what holds of the login of register.js: a 200 response that carries an
\* email is a success without the localStorage check
C27_WithEmail ==
  [][\A a \in AReqs :
       (/\ Returns(a) /\ browser.calls[a].fn = "login"
        /\ browser'.calls[a].resp.status = 200
        /\ areq[a].fn = "login_cjs"
        /\ browser'.calls[a].resp.row.email # 0) =>
         /\ browser'.calls[a].result.ok
         /\ ~browser'.calls[a].result.fallback
         /\ browser'.storage.loggedInUser = NormalizeEmail(browser'.calls[a].form.email)]_vars

====
